---- MODULE Spec2Model ----
(***************************************************************************)
(* Model of the two sketches of the repository:                            *)
(*   - dfRobotRotaryEncoder: a polled task-manager event (PaintEvent) that  *)
(*     repaints an LCD no more often than every timeOfNextCheck            *)
(*     microseconds, driven by field setters called from switch callbacks; *)
(*   - the LoRa receiver: loop() reads one packet, splits it at the first  *)
(*     two commas and forwards it over Bluetooth.                          *)
(* The two sketches share no state; each has its own specification.        *)
(***************************************************************************)
EXTENDS Integers, Sequences, FiniteSets

VARIABLES
    \* ---- dfRobotRotaryEncoder sketch
    pc,                \* "boot" before setup(), "loop" once setup() returned
    intent,            \* global EncoderUserIntention
    selState,          \* PaintEvent::selState
    encoderReading,    \* PaintEvent::encoderReading
    cursorKey,         \* PaintEvent::cursorKey
    triggered,         \* BaseEvent's triggered flag of paintEvent
    nextEligibleTime,  \* earliest time the event may execute again
    now,               \* clock value of the latest poll (microseconds)
    lcd,               \* what the display shows (result of the latest exec)
    renderLog,         \* times of the exec() calls so far
    polls,             \* the latest two polls, each [t, rendered, dirty]
    lastArgs,          \* the latest argument given to each field setter
    releases,          \* releases of the select button so far, modulo 3
    \* ---- LoRa receiver sketch
    rpc,               \* "boot" before setup(), "loop" once setup() returned
    packet,            \* the packet the radio delivered in the latest loop()
    receivedData,      \* the String built from the packet
    outcome,           \* what the latest loop() did with its packet
    prevOutcome,       \* outcome of the loop() before
    record,            \* <<data1, data2, data3>> of the latest loop(), or <<>>
    btSent,            \* the print calls on bt made by the latest loop()
    serialSent,        \* the println calls on Serial made by the latest step
    frames,            \* what each loop() of a recorded run found on the radio
    btLog              \* all print calls on bt of a recorded run, in order

gateVars  == <<pc, intent, selState, encoderReading, cursorKey, triggered,
               nextEligibleTime, now, lcd, renderLog, polls, lastArgs, releases>>
relayVars == <<rpc, packet, receivedData, outcome, prevOutcome, record,
               btSent, serialSent, frames, btLog>>
vars == <<gateVars, relayVars>>

(***************************************************************************)
(* Bounds of the model.                                                    *)
(***************************************************************************)
MaxTicks == 3          \* polls happen in the first MaxTicks half intervals
MaxLen  == 4           \* longest packet the radio delivers
MaxBeginFailures == 1  \* most failed LoRa.begin attempts in setup()
MaxFrames == 3         \* loop() calls of a recorded run

Min(S) == CHOOSE x \in S : \A y \in S : x <= y

(***************************************************************************)
(* dfRobotRotaryEncoder sketch                                             *)
(***************************************************************************)

\* PaintEvent::timeOfNextCheck, in microseconds.
timeOfNextCheck == 250 * 1000

\* Values the inputs are drawn from.
Readings  == {0, 250}                       \* encoder range is 0..500
PassThroughPins == {"DF_KEY_LEFT", "DF_KEY_RIGHT"}
PollSteps == {0, timeOfNextCheck \div 2, timeOfNextCheck}

\* The latest clock value of a poll.
MaxTime == MaxTicks * (timeOfNextCheck \div 2)

\* intentStr of exec().
IntentStr(i) ==
    IF i = "SCROLL_THROUGH_SIDEWAYS" THEN "ScSide"
    ELSE IF i = "SCROLL_THROUGH_ITEMS" THEN "Scroll"
    ELSE "Chg Val"

\* ltoaClrBuff(sz, value, 4, '0', sizeof sz): the decimal digits of value,
\* zero padded on the left to four places.
ZeroPad4(n) ==
    <<(n \div 1000) % 10, (n \div 100) % 10, (n \div 10) % 10, n % 10>>

\* btnState of exec().
BtnState(s) ==
    IF s = "PRESSED" THEN "PRESS"
    ELSE IF s = "BUTTON_HELD" THEN "HELD "
    ELSE "     "

\* cursorState of exec().
CursorState(k) ==
    IF k = "DF_KEY_RIGHT" THEN "RIGHT"
    ELSE IF k = "DF_KEY_LEFT" THEN "LEFT "
    ELSE "     "

\* What exec() writes to the display for given field values.
Paint(i, reading, sel, key) ==
    [title  |-> <<"encoder: ", IntentStr(i)>>,
     sz     |-> ZeroPad4(reading),
     button |-> BtnState(sel),
     cursor |-> CursorState(key)]

\* The display before the first exec().
BlankLcd == [title |-> <<>>, sz |-> <<>>, button |-> "", cursor |-> ""]

\* PaintEvent::exec
exec == lcd' = Paint(intent, encoderReading, selState, cursorKey)

\* BaseEvent::setTriggered
setTriggered(t) ==
    /\ triggered' = t
    /\ UNCHANGED nextEligibleTime

\* BaseEvent::markTriggeredAndNotify: trigger, and make the event eligible
\* at once instead of at its next interval.
markTriggeredAndNotify ==
    /\ triggered' = TRUE
    /\ nextEligibleTime' = now

\* A pending repaint must stay paintable within the modelled time span.
InHorizon == nextEligibleTime <= MaxTime

\* PaintEvent::currentReading
currentReading_notify(reading_) ==
    /\ encoderReading' = reading_
    /\ markTriggeredAndNotify
    /\ UNCHANGED <<selState, cursorKey, lcd, renderLog>>
currentReading_untriggered(reading_) ==
    /\ encoderReading' = reading_
    /\ UNCHANGED <<triggered, nextEligibleTime>>
    /\ UNCHANGED <<selState, cursorKey, lcd, renderLog>>
currentReading(reading_) ==
    /\ encoderReading' = reading_
    /\ setTriggered(TRUE)
    /\ UNCHANGED <<selState, cursorKey, lcd, renderLog>>

\* PaintEvent::selectChanged
selectChanged_keepFirst(state) ==
    /\ selState' = (IF triggered THEN selState ELSE state)
    /\ setTriggered(TRUE)
    /\ UNCHANGED <<encoderReading, cursorKey, lcd, renderLog>>
selectChanged_clearsCursor(state) ==
    /\ selState' = state
    /\ cursorKey' = "NO_PIN"
    /\ setTriggered(TRUE)
    /\ UNCHANGED <<encoderReading, lcd, renderLog>>
selectChanged(state) ==
    /\ selState' = state
    /\ setTriggered(TRUE)
    /\ UNCHANGED <<encoderReading, cursorKey, lcd, renderLog>>

\* PaintEvent::cursor
cursor_paints(pin) ==
    /\ cursorKey' = pin
    /\ lcd' = Paint(intent, encoderReading, selState, pin)
    /\ renderLog' = Append(renderLog, now)
    /\ UNCHANGED <<triggered, nextEligibleTime>>
    /\ UNCHANGED <<encoderReading, selState>>
cursor(pin) ==
    /\ cursorKey' = pin
    /\ setTriggered(TRUE)
    /\ UNCHANGED <<encoderReading, selState, lcd, renderLog>>

\* setup() of the sketch.
setup_noTrigger ==
    /\ pc = "boot"
    /\ pc' = "loop"
    /\ UNCHANGED <<triggered, nextEligibleTime>>
    /\ UNCHANGED <<intent, selState, encoderReading, cursorKey, now, lcd,
                   renderLog, polls, lastArgs, releases>>
    /\ UNCHANGED relayVars
setup ==
    /\ pc = "boot"
    /\ markTriggeredAndNotify
    /\ pc' = "loop"
    /\ UNCHANGED <<intent, selState, encoderReading, cursorKey, now, lcd,
                   renderLog, polls, lastArgs, releases>>
    /\ UNCHANGED relayVars

\* The encoder callback given to setupUpDownButtonEncoder.
EncoderChanged ==
    /\ pc = "loop" /\ InHorizon
    /\ \E reading \in Readings :
          /\ currentReading(reading)
          /\ lastArgs' = [lastArgs EXCEPT !.reading = reading]
    /\ UNCHANGED <<pc, intent, now, polls, releases>>
    /\ UNCHANGED relayVars

\* The handler given to switches.addSwitch(DF_KEY_SELECT, ...).
SelectPressed ==
    /\ pc = "loop" /\ InHorizon
    /\ \E held \in BOOLEAN :
          LET state == IF held THEN "BUTTON_HELD" ELSE "PRESSED"
          IN  /\ selectChanged(state)
              /\ lastArgs' = [lastArgs EXCEPT !.state = state]
    /\ UNCHANGED <<pc, intent, now, polls, releases>>
    /\ UNCHANGED relayVars

\* The intention following i in the release handler.
NextIntent_twoState(i) ==
    IF i = "CHANGE_VALUE" THEN "SCROLL_THROUGH_ITEMS"
    ELSE IF i = "SCROLL_THROUGH_SIDEWAYS" THEN "SCROLL_THROUGH_ITEMS"
    ELSE "CHANGE_VALUE"
NextIntent(i) ==
    IF i = "CHANGE_VALUE" THEN "SCROLL_THROUGH_ITEMS"
    ELSE IF i = "SCROLL_THROUGH_ITEMS" THEN "SCROLL_THROUGH_SIDEWAYS"
    ELSE "CHANGE_VALUE"

\* The handler given to switches.onRelease(DF_KEY_SELECT, ...).
SelectReleased_silent ==
    /\ pc = "loop" /\ InHorizon
    /\ intent' = NextIntent(intent)
    /\ releases' = (releases + 1) % 3
    /\ UNCHANGED <<pc, now, polls, lastArgs, selState, encoderReading,
                   cursorKey, triggered, nextEligibleTime, lcd, renderLog>>
    /\ UNCHANGED relayVars
SelectReleased ==
    /\ pc = "loop" /\ InHorizon
    /\ selectChanged("NOT_PRESSED")
    /\ lastArgs' = [lastArgs EXCEPT !.state = "NOT_PRESSED"]
    /\ intent' = NextIntent(intent)
    /\ releases' = (releases + 1) % 3
    /\ UNCHANGED <<pc, now, polls>>
    /\ UNCHANGED relayVars

\* MyPassThroughSwitchListener::onPressed
onPressed ==
    /\ pc = "loop" /\ InHorizon
    /\ \E pin \in PassThroughPins :
          /\ cursor(pin)
          /\ lastArgs' = [lastArgs EXCEPT !.pin = pin]
    /\ UNCHANGED <<pc, intent, now, polls, releases>>
    /\ UNCHANGED relayVars

\* MyPassThroughSwitchListener::onReleased
onReleased ==
    /\ pc = "loop" /\ InHorizon
    /\ cursor("NO_PIN")
    /\ lastArgs' = [lastArgs EXCEPT !.pin = "NO_PIN"]
    /\ UNCHANGED <<pc, intent, now, polls, releases>>
    /\ UNCHANGED relayVars

\* The latest two polls, after a poll at time t.
Polled(t, rendered) ==
    LET p == [t |-> t, rendered |-> rendered, dirty |-> triggered]
    IN  IF polls = <<>> THEN <<p>> ELSE <<polls[Len(polls)], p>>

\* loop(): taskManager.runLoop() polls paintEvent at clock value t.
poll(t) ==
    /\ pc = "loop"
    /\ t <= MaxTime
    /\ now' = t
    /\ IF triggered /\ t >= nextEligibleTime
       THEN /\ exec
            /\ triggered' = FALSE
            /\ nextEligibleTime' = t + timeOfNextCheck
            /\ renderLog' = Append(renderLog, t)
            /\ polls' = Polled(t, TRUE)
       ELSE /\ UNCHANGED <<lcd, triggered, nextEligibleTime, renderLog>>
            /\ polls' = Polled(t, FALSE)
    /\ UNCHANGED <<pc, intent, selState, encoderReading, cursorKey, lastArgs,
                   releases>>
    /\ UNCHANGED relayVars

\* loop() of the sketch: one pass of the task manager at a later clock value.
loop_alwaysExec ==
    \E d \in PollSteps :
        /\ pc = "loop"
        /\ now + d <= MaxTime
        /\ now' = now + d
        /\ exec
        /\ triggered' = FALSE
        /\ nextEligibleTime' = now + d + timeOfNextCheck
        /\ renderLog' = Append(renderLog, now + d)
        /\ polls' = Polled(now + d, TRUE)
        /\ UNCHANGED <<pc, intent, selState, encoderReading, cursorKey,
                       lastArgs, releases>>
        /\ UNCHANGED relayVars
loop == \E d \in PollSteps : poll(now + d)

GateInit ==
    /\ pc = "boot"
    /\ intent = "CHANGE_VALUE"
    /\ selState = "NOT_PRESSED"
    /\ encoderReading = 0
    /\ cursorKey = "PIN_0"
    /\ triggered = FALSE
    /\ nextEligibleTime = 0
    /\ now = 0
    /\ lcd = BlankLcd
    /\ renderLog = <<>>
    /\ polls = <<>>
    /\ lastArgs = [reading |-> 0, state |-> "NOT_PRESSED", pin |-> "PIN_0"]
    /\ releases = 0

RelayInit ==
    /\ rpc = "boot"
    /\ packet = <<>>
    /\ receivedData = <<>>
    /\ outcome = "none"
    /\ prevOutcome = "none"
    /\ record = <<>>
    /\ btSent = <<>>
    /\ serialSent = <<>>
    /\ frames = <<>>
    /\ btLog = <<>>

Init == GateInit /\ RelayInit

(***************************************************************************)
(* LoRa receiver sketch                                                    *)
(* A String is a sequence of one-character strings; indices count from 0   *)
(* as in the sketch.  Packets hold no NUL character.                       *)
(***************************************************************************)

Chars == {"A", "B", ","}

RECURSIVE StringsUpTo(_)
StringsUpTo(n) ==
    IF n = 0 THEN {<<>>}
    ELSE LET shorter == StringsUpTo(n - 1)
         IN  shorter \cup {Append(s, c) : s \in {x \in shorter : Len(x) = n - 1},
                                          c \in Chars}

\* What LoRa.parsePacket() can make available to one loop().
Packets == StringsUpTo(MaxLen)

\* An unsigned int parameter receiving the int value x: a negative x wraps
\* to 2^32 + x.  TLC's integers end at 2^31 - 1, so the wrapped
\* value is kept 2^31 lower; it still exceeds every String length and the
\* wrapped values keep their order.
AsUnsigned(x) == IF x < 0 THEN (2147483647 + x) + 1 ELSE x

\* String::indexOf(ch, fromIndex): index of the first ch at or after
\* fromIndex, -1 when there is none.
indexOf(s, ch, fromIndex) ==
    IF fromIndex >= Len(s) THEN -1
    ELSE LET hits == {i \in fromIndex .. Len(s) - 1 : s[i + 1] = ch}
         IN  IF hits = {} THEN -1 ELSE Min(hits)

\* String::substring(left, right): characters left .. right-1; the ends are
\* swapped when left > right and right is clipped to the length.
substring(s, left, right) ==
    LET l0 == AsUnsigned(left)
        r0 == AsUnsigned(right)
        l  == IF l0 > r0 THEN r0 ELSE l0
        r1 == IF l0 > r0 THEN l0 ELSE r0
        r  == IF r1 > Len(s) THEN Len(s) ELSE r1
    IN  IF l >= Len(s) THEN <<>> ELSE SubSeq(s, l + 1, r)

\* String receivedData = "";
StaleString == receivedData
NewString == <<>>

\* while (LoRa.available()) receivedData += (char) LoRa.read();
RECURSIVE ReadAll(_, _)
ReadAll(buf, rest) ==
    IF rest = <<>> THEN buf
    ELSE ReadAll(Append(buf, Head(rest)), Tail(rest))

\* separatorIndex1 and separatorIndex2 of loop().
SeparatorIndex1(s) == indexOf(s, ",", 0)
SeparatorIndex2_sameStart(s) == indexOf(s, ",", SeparatorIndex1(s))
SeparatorIndex2(s) == indexOf(s, ",", SeparatorIndex1(s) + 1)

\* The test guarding the split in loop().
HasBothSeparators_either(sep1, sep2) == sep1 # -1 \/ sep2 # -1
HasBothSeparators_positive(sep1, sep2) == sep1 > 0 /\ sep2 > 0
HasBothSeparators(sep1, sep2) == sep1 # -1 /\ sep2 # -1

\* data1, data2, data3 of loop().
Split_offByOne(s) ==
    LET sep1 == SeparatorIndex1(s)
        sep2 == SeparatorIndex2(s)
    IN  <<substring(s, 0, sep1),
          substring(s, sep1, sep2),
          substring(s, sep2 + 1, Len(s))>>
Split(s) ==
    LET sep1 == SeparatorIndex1(s)
        sep2 == SeparatorIndex2(s)
    IN  <<substring(s, 0, sep1),
          substring(s, sep1 + 1, sep2),
          substring(s, sep2 + 1, Len(s))>>

\* The Serial.println calls of loop() for a split packet.
SerialLines(data) ==
    <<<<"Data 1: ", data[1]>>, <<"Data 2: ", data[2]>>, <<"Data 3: ", data[3]>>>>

\* The bt.print / bt.println calls of loop() for a split packet.
BtPrints(data) ==
    <<data[1], <<";">>, data[2], <<";">>, <<"0">>, <<";", "\r", "\n">>>>

\* "." once per failed LoRa.begin.
RECURSIVE Dots(_)
Dots(n) == IF n = 0 THEN <<>> ELSE <<<<".", <<>>>>>> \o Dots(n - 1)

\* setup() of the receiver.
relaySetup ==
    /\ rpc = "boot"
    /\ rpc' = "loop"
    /\ \E failures \in 0 .. MaxBeginFailures :
          serialSent' = <<<<"LoRa Receiver", <<>>>>>> \o Dots(failures)
                           \o <<<<"LoRa Initializing OK!", <<>>>>>>
    /\ UNCHANGED <<packet, receivedData, outcome, prevOutcome, record, btSent,
                   frames, btLog>>
    /\ UNCHANGED gateVars

\* loop() of the receiver, with p the packet the radio holds (<<>>: none),
\* drawn from the set P.
relayLoopOn(P) ==
    /\ rpc = "loop"
    /\ \E p \in P :
          LET packetSize == Len(p)
              data == ReadAll(NewString, p)
              sep1 == SeparatorIndex1(data)
              sep2 == SeparatorIndex2(data)
          IN  /\ packet' = p
              /\ prevOutcome' = outcome
              /\ IF packetSize = 0
                 THEN /\ outcome' = "idle"
                      /\ record' = <<>>
                      /\ btSent' = <<>>
                      /\ serialSent' = <<>>
                      /\ UNCHANGED receivedData
                 ELSE /\ receivedData' = data
                      /\ IF HasBothSeparators(sep1, sep2)
                         THEN /\ outcome' = "record"
                              /\ record' = Split(data)
                              /\ serialSent' = SerialLines(Split(data))
                              /\ btSent' = BtPrints(Split(data))
                         ELSE /\ outcome' = "malformed"
                              /\ record' = <<>>
                              /\ btSent' = <<>>
                              /\ serialSent' = <<>>
    /\ UNCHANGED rpc
    /\ UNCHANGED gateVars

\* One loop() on any packet; the run is not recorded.
relayLoop ==
    /\ relayLoopOn(Packets)
    /\ UNCHANGED <<frames, btLog>>

\* The packets of a recorded run: none, malformed ones and well-formed ones.
RunPackets ==
    {<<>>, <<"A">>, <<"A", ",">>, <<"A", ",", ",">>, <<",", "B", ",">>,
     <<",", ",", "B", ",">>}

\* One loop() of a recorded run of at most MaxFrames calls.
relayRun ==
    /\ Len(frames) < MaxFrames
    /\ relayLoopOn(RunPackets)
    /\ frames' = Append(frames, packet')
    /\ btLog' = btLog \o btSent'

(***************************************************************************)
(* Specifications                                                          *)
(***************************************************************************)

Next ==
    \/ setup
    \/ EncoderChanged
    \/ SelectPressed
    \/ SelectReleased
    \/ onPressed
    \/ onReleased
    \/ loop

\* The rotary encoder sketch.
Spec == Init /\ [][Next]_vars

\* A poll that finds the event triggered and eligible.
EligiblePoll == \E d \in PollSteps : now + d >= nextEligibleTime /\ poll(now + d)

\* The rotary encoder sketch with loop() called for ever as the clock advances.
LiveSpec == Spec /\ WF_vars(EligiblePoll)

RelayNext ==
    \/ relaySetup
    \/ relayLoop

\* The LoRa receiver sketch.
RelaySpec == Init /\ [][RelayNext]_vars

RunNext ==
    \/ relaySetup
    \/ relayRun

\* The LoRa receiver sketch over a recorded run of loop() calls.
RunSpec == Init /\ [][RunNext]_vars

(***************************************************************************)
(* Properties of the rotary encoder sketch                                 *)
(***************************************************************************)

\* A step in which exec() ran.
Rendered == renderLog' # renderLog

\* What the display must show for the latest arguments of the setters.
LatestPaint(i, args) == Paint(i, args.reading, args.state, args.pin)

\* C1: any two consecutive renders are at least the interval (timeOfNextCheck)
\* apart, whatever the interleaving of setters, the initial trigger and polls.
C1_RenderSpacing ==
    \A k \in 1 .. Len(renderLog) - 1 :
        renderLog[k + 1] - renderLog[k] >= timeOfNextCheck

\* Two renders exactly one interval apart, with a setter call between them.
C1_Witness ==
    /\ Len(renderLog) >= 2
    /\ renderLog[2] - renderLog[1] = timeOfNextCheck
    /\ lastArgs.reading = 250

\* C2: the display is written only by a poll, and only by one that finds the
\* event triggered at a time not before nextEligibleTime; right after a render
\* triggered is false and nextEligibleTime is the poll's time plus the interval.
C2_RenderOnlyInEligiblePoll ==
    [][/\ lcd' # lcd => Rendered
       /\ Rendered =>
            /\ pc = "loop"
            /\ triggered
            /\ polls' = Polled(now', TRUE)
            /\ now' >= nextEligibleTime
            /\ ~triggered'
            /\ nextEligibleTime' = now' + timeOfNextCheck]_vars

\* The state right after a render that was not the first one.
C2_Witness ==
    /\ Len(renderLog) >= 2
    /\ polls[Len(polls)].rendered
    /\ polls[Len(polls)].t = now
    /\ ~triggered
    /\ nextEligibleTime = now + timeOfNextCheck

\* C3: no update is lost and the settled state is rendered exactly once:
\* whenever no render is pending the display shows the latest argument of
\* every setter; a pending render is eventually made, given that polls go on;
\* and a render happens only when a setter (or the initial trigger) has run
\* since the render before, and leaves nothing pending.
C3_LatestStateRenderedOnce ==
    /\ [](pc = "loop" /\ ~triggered => lcd = LatestPaint(intent, lastArgs))
    /\ (triggered ~> (~triggered /\ lcd = LatestPaint(intent, lastArgs)))
    /\ [][Rendered => triggered /\ ~triggered']_vars

\* Fields were set after the first render and the display shows them, with
\* nothing pending.
C3_Witness ==
    /\ Len(renderLog) >= 2
    /\ ~triggered
    /\ lastArgs = [reading |-> 250, state |-> "BUTTON_HELD", pin |-> "DF_KEY_LEFT"]
    /\ lcd = Paint(intent, 250, "BUTTON_HELD", "DF_KEY_LEFT")

\* C4: of two polls less than one interval apart at most one renders, and a
\* render shows the latest argument given to every setter (a field never set
\* shows its initial value).
C4_Coalescing ==
    /\ [](Len(polls) = 2 /\ polls[2].t - polls[1].t < timeOfNextCheck
            => ~(polls[1].rendered /\ polls[2].rendered))
    /\ [][Rendered => lcd' = LatestPaint(intent', lastArgs')]_vars

\* Two polls half an interval apart: the first found nothing to paint, two
\* fields were set twice in between, and the second painted the last values.
C4_Witness ==
    /\ Len(polls) = 2
    /\ polls[2].t - polls[1].t = timeOfNextCheck \div 2
    /\ ~polls[1].dirty /\ ~polls[1].rendered
    /\ polls[2].rendered
    /\ now = polls[2].t /\ ~triggered
    /\ lastArgs.reading = 250 /\ lastArgs.pin = "NO_PIN"
    /\ Len(renderLog) = 2
    /\ lcd = Paint(intent, 250, selState, "NO_PIN")

\* C5: the first poll after setup() renders, whatever its time, also when no
\* setter has been called.
C5_FirstPollRenders ==
    [][pc = "loop" /\ polls = <<>> /\ polls' # <<>> => Rendered]_vars

\* The first poll came later than time 0, rendered, and no setter had run.
C5_Witness ==
    /\ Len(polls) = 1
    /\ polls[1].t > 0
    /\ polls[1].rendered
    /\ renderLog = <<polls[1].t>>
    /\ lastArgs = [reading |-> 0, state |-> "NOT_PRESSED", pin |-> "PIN_0"]
    /\ lcd = Paint("CHANGE_VALUE", 0, "NOT_PRESSED", "PIN_0")

\* A step of a callback that calls a field setter: a step of the running
\* sketch that is not a poll.
SetterStep == pc = "loop" /\ polls' = polls

\* C11: a setter writes its own field only and sets triggered: the other
\* fields keep their values (every field holds the latest argument given to
\* its setter), nextEligibleTime is unchanged and nothing is rendered.
C11_SetterFrame ==
    [][SetterStep =>
         /\ triggered'
         /\ nextEligibleTime' = nextEligibleTime
         /\ ~Rendered
         /\ lcd' = lcd
         /\ encoderReading' # encoderReading =>
                selState' = selState /\ cursorKey' = cursorKey
         /\ selState' # selState =>
                encoderReading' = encoderReading /\ cursorKey' = cursorKey
         /\ cursorKey' # cursorKey =>
                encoderReading' = encoderReading /\ selState' = selState
         /\ encoderReading' = lastArgs'.reading
         /\ selState' = lastArgs'.state
         /\ cursorKey' = lastArgs'.pin]_vars

\* All three setters ran after the first render: each field holds its own
\* argument, a render is pending, and the display and nextEligibleTime are
\* those of the first render.
C11_Witness ==
    /\ Len(renderLog) = 1
    /\ triggered
    /\ encoderReading = 250
    /\ selState = "PRESSED"
    /\ cursorKey = "DF_KEY_LEFT"
    /\ lcd = Paint("CHANGE_VALUE", 0, "NOT_PRESSED", "PIN_0")
    /\ nextEligibleTime = renderLog[1] + timeOfNextCheck

\* C12: a poll that finds the event not triggered, or comes before
\* nextEligibleTime, renders nothing and leaves the fields, the display,
\* triggered and nextEligibleTime as they were.
C12_IneligiblePollIsNoOp ==
    [][polls' # polls /\ (~triggered \/ now' < nextEligibleTime) =>
         /\ ~Rendered
         /\ UNCHANGED <<encoderReading, selState, cursorKey, intent, lcd,
                        triggered, nextEligibleTime>>]_vars

\* A poll came too early for a pending change: the change is still pending
\* and the display still shows the old reading.
C12_Witness ==
    /\ polls # <<>>
    /\ polls[Len(polls)].dirty
    /\ ~polls[Len(polls)].rendered
    /\ polls[Len(polls)].t = now
    /\ now < nextEligibleTime
    /\ triggered
    /\ encoderReading = 250
    /\ lcd.sz = ZeroPad4(0)

\* The intention after n releases of the select button (n counted modulo 3).
IntentAfter(n) ==
    IF n = 0 THEN "CHANGE_VALUE"
    ELSE IF n = 1 THEN "SCROLL_THROUGH_ITEMS"
    ELSE "SCROLL_THROUGH_SIDEWAYS"

\* C14: the intention is a cycle of three driven by releases of the select
\* button only: it starts at CHANGE_VALUE, each release moves it one place
\* along CHANGE_VALUE, SCROLL_THROUGH_ITEMS, SCROLL_THROUGH_SIDEWAYS and back,
\* so three releases restore it, and no other step changes it.
C14_IntentCycle ==
    /\ [](intent = IntentAfter(releases))
    /\ [][releases' # releases =>
            /\ intent = "CHANGE_VALUE" => intent' = "SCROLL_THROUGH_ITEMS"
            /\ intent = "SCROLL_THROUGH_ITEMS" => intent' = "SCROLL_THROUGH_SIDEWAYS"
            /\ intent = "SCROLL_THROUGH_SIDEWAYS" => intent' = "CHANGE_VALUE"]_vars
    /\ [][intent' # intent => releases' # releases]_vars

\* The third release brought the intention back to CHANGE_VALUE while the
\* display still shows the label painted after the second.
C14_Witness ==
    /\ releases = 0
    /\ intent = "CHANGE_VALUE"
    /\ lcd.title = <<"encoder: ", "ScSide">>
    /\ selState = "NOT_PRESSED"

\* The first display line for an intention.
Title(i) == <<"encoder: ", IntentStr(i)>>

\* C15: a step that changes the intention leaves triggered true and the
\* select state NOT_PRESSED; so while the sketch runs, a display whose label
\* is not that of the current intention has a render pending, and the label
\* eventually is that of the current intention, given that polls go on.
C15_IntentLabelFollows ==
    /\ [][intent' # intent => triggered' /\ selState' = "NOT_PRESSED"]_vars
    /\ [](pc = "loop" /\ lcd.title # Title(intent) => triggered)
    /\ ((pc = "loop" /\ lcd.title # Title(intent)) ~> (lcd.title = Title(intent)))

\* After a release the display was repainted with the new label.
C15_Witness ==
    /\ Len(renderLog) >= 2
    /\ intent = "SCROLL_THROUGH_ITEMS"
    /\ lcd.title = <<"encoder: ", "Scroll">>
    /\ lcd.button = "     "
    /\ ~triggered

(***************************************************************************)
(* Properties of the LoRa receiver sketch                                  *)
(***************************************************************************)

\* The positions (from 1) of the delimiter in a frame.
Commas(s) == {i \in 1 .. Len(s) : s[i] = ","}

\* The frame holds enough delimiters for three fields.
EnoughCommas(s) == Cardinality(Commas(s)) >= 2

FirstComma(s)  == Min(Commas(s))
SecondComma(s) == Min(Commas(s) \ {FirstComma(s)})

\* The three fields of a frame with at least two delimiters.
Fields(s) ==
    <<SubSeq(s, 1, FirstComma(s) - 1),
      SubSeq(s, FirstComma(s) + 1, SecondComma(s) - 1),
      SubSeq(s, SecondComma(s) + 1, Len(s))>>

\* A loop() has run.
Looped == outcome # "none"

\* The bt writes that carry a value, without the fixed ";" pieces.
IsValueWrite(w) == w # <<";">> /\ w # <<";", "\r", "\n">>
ValueWrites == SelectSeq(btSent, IsValueWrite)

\* C6: after a successful parse the Bluetooth sink receives one write per
\* field, in order, each carrying the value of that field of the record.
C6_SinkReceivesRecord ==
    outcome = "record" => ValueWrites = record

\* C7: a frame with at least two delimiters parses to exactly three fields:
\* the text before the first delimiter, the text between the first and the
\* second, and everything after the second, further delimiters included.
C7_GreedySplit ==
    Looped /\ EnoughCommas(packet) =>
        /\ outcome = "record"
        /\ Len(record) = 3
        /\ record = Fields(packet)

\* A frame with three delimiters whose last field kept one of them.
C7_Witness ==
    /\ outcome = "record"
    /\ Cardinality(Commas(packet)) = 3
    /\ record[1] = <<"A">>
    /\ "," \in {record[3][k] : k \in 1 .. Len(record[3])}

\* C8: a frame with fewer than two delimiters, the empty frame included,
\* yields no record, writes nothing to the Bluetooth sink, and leaves the
\* relay ready for the next frame.
C8_MalformedDropped ==
    Looped /\ ~EnoughCommas(packet) =>
        /\ outcome \in {"malformed", "idle"}
        /\ packet # <<>> => outcome = "malformed"
        /\ record = <<>>
        /\ btSent = <<>>
        /\ rpc = "loop"

\* A frame with exactly one delimiter was dropped.
C8_Witness ==
    /\ outcome = "malformed"
    /\ Cardinality(Commas(packet)) = 1
    /\ Len(packet) = MaxLen
    /\ btSent = <<>>

\* C9: what a loop() makes of its frame depends on that frame alone: a frame
\* with two delimiters gives its record and the writes for it, any other
\* frame gives nothing, whatever the loop() before did (in particular after
\* a malformed frame).
C9_NoStateBetweenFrames ==
    Looped =>
        IF EnoughCommas(packet)
        THEN /\ outcome = "record"
             /\ record = Fields(packet)
             /\ btSent = BtPrints(Fields(packet))
             /\ serialSent = SerialLines(Fields(packet))
        ELSE /\ outcome # "record"
             /\ record = <<>>
             /\ btSent = <<>>

\* A well-formed frame right after a malformed one.
C9_Witness ==
    /\ prevOutcome = "malformed"
    /\ outcome = "record"
    /\ record = Fields(packet)
    /\ btSent # <<>>

\* C10: empty fields are valid: with at least two delimiters the frame is
\* parsed, and a leading delimiter gives an empty first field, two adjacent
\* leading delimiters an empty second field, and a second delimiter that ends
\* the frame an empty third field.
C10_EmptyFields ==
    Looped /\ EnoughCommas(packet) =>
        /\ outcome = "record"
        /\ FirstComma(packet) = 1 => record[1] = <<>>
        /\ SecondComma(packet) = FirstComma(packet) + 1 => record[2] = <<>>
        /\ SecondComma(packet) = Len(packet) => record[3] = <<>>
        /\ FirstComma(packet) > 1 => record[1] # <<>>

\* ",B," parsed to ["", "B", ""].
C10_Witness ==
    /\ packet = <<",", "B", ",">>
    /\ outcome = "record"
    /\ record = <<<<>>, <<"B">>, <<>>>>

\* s holds no delimiter.
NoComma(s) == \A k \in 1 .. Len(s) : s[k] # ","

\* C16: the fields of a parsed frame, joined by the delimiter, are the frame
\* itself, and the first two fields hold no delimiter.
C16_SplitRoundTrip ==
    outcome = "record" =>
        /\ NoComma(record[1])
        /\ NoComma(record[2])
        /\ record[1] \o <<",">> \o record[2] \o <<",">> \o record[3] = packet

\* A parsed frame with text before the first and after the second delimiter.
C16_Witness ==
    /\ outcome = "record"
    /\ record[1] = <<"A">>
    /\ record[3] = <<"B">>
    /\ Len(packet) = 4

\* The write that ends a record on bt.
Terminator == <<";", "\r", "\n">>

\* The writes of log cut at each Terminator: one sequence per record.
RECURSIVE Chunks(_, _, _)
Chunks(log, cur, acc) ==
    IF log = <<>> THEN acc
    ELSE IF Head(log) = Terminator
         THEN Chunks(Tail(log), <<>>, Append(acc, cur))
         ELSE Chunks(Tail(log), Append(cur, Head(log)), acc)

RecordsSent == Chunks(btLog, <<>>, <<>>)
IsFrame(f) == f # <<>>
FramesReceived == SelectSeq(frames, IsFrame)
WellFormedReceived == SelectSeq(frames, EnoughCommas)
IsNotSemicolon(w) == w # <<";">>

\* C17: over a run of loop() calls, a call writes at most one record and a
\* call without a packet writes nothing; the records on bt are those of the
\* well-formed frames, one each and in the order received (told apart by
\* their first two fields), so they are never more than the frames received.
C17_RecordsFollowFrames ==
    /\ Looped => Len(Chunks(btSent, <<>>, <<>>)) <= 1
    /\ Looped /\ packet = <<>> => btSent = <<>>
    /\ btLog # <<>> => btLog[Len(btLog)] = Terminator
    /\ Len(RecordsSent) = Len(WellFormedReceived)
    /\ Len(RecordsSent) <= Len(FramesReceived)
    /\ \A k \in 1 .. Len(RecordsSent) :
          LET values == SelectSeq(RecordsSent[k], IsNotSemicolon)
          IN  /\ Len(values) = 3
              /\ values[1] = Fields(WellFormedReceived[k])[1]
              /\ values[2] = Fields(WellFormedReceived[k])[2]

\* Two different well-formed frames with a malformed one between them gave
\* two records in the order of the frames.
C17_Witness ==
    /\ frames = <<<<"A", ",", ",">>, <<"A", ",">>, <<",", "B", ",">>>>
    /\ Len(RecordsSent) = 2
    /\ RecordsSent[1][1] = <<"A">>
    /\ RecordsSent[2][3] = <<"B">>

====
